---- MODULE Spec2Model ----
(***************************************************************************)
(* sails-mongo adapter: the connection registry (lib/adapter.js), the      *)
(* connection opener (lib/connection.js) and the adapter verbs that        *)
(* delegate to the store through the registry.                             *)
(*                                                                         *)
(* JavaScript values are modelled as strings: "undefined", "null", "" and  *)
(* "false" are the falsy ones.  One step of the model is one turn of the   *)
(* event loop: a call of an adapter method up to its return (or throw), or *)
(* the delivery of one driver callback.                                    *)
(***************************************************************************)
EXTENDS Naturals, Sequences, FiniteSets, TLC

VARIABLES
    connections,   \* adapter.js:20  identity -> {config, connection, collections}
    clients,       \* Connection objects holding a live client (connection.js:185)
    opens,         \* MongoClient.connect calls whose callback is not yet delivered
    closes,        \* client.close calls whose callback is not yet delivered
    destroys,      \* destroy calls between their find and their delete
    storeColls,    \* collections that exist in the store
    storeIdx,      \* <<collection, index>> pairs that exist in the store
    storeDocs,     \* collection -> documents in the store
    ev,            \* what the last step did: method, callback, driver calls
    okCount,       \* history: registerConnection successes per identity, counted
                   \*          until the first teardown changes the registry
    tornDown,      \* history: some teardown has changed the registry
    joins          \* connections with a join whose planner has not called back

vars == <<connections, clients, opens, closes, destroys,
          storeColls, storeIdx, storeDocs, ev, okCount, tornDown, joins>>

----------------------------------------------------------------------------
(* Bounds *)

MaxOpens   == 1      \* connect calls in flight
MaxClients == 2      \* clients ever opened
MaxCloses  == 1      \* close calls in flight
MaxDestroys == 1     \* destroy calls between find and delete

Ids       == {"a", "b"}          \* connection identities
CollNames == {"users", "posts"}  \* collection identities
IdxNames  == {"i1", "i2"}        \* declared indexes of every collection
Docs      == {"d1"}        \* documents

----------------------------------------------------------------------------
(* JavaScript values *)

Undefined == "undefined"
Null      == "null"

Truthy(v) == v \notin {Undefined, Null, "", "false"}

NoFn == [k \in {} |-> Undefined]

Without(f, k) == [x \in (DOMAIN f) \ {k} |-> f[x]]

With(f, k, v) == [x \in (DOMAIN f) \cup {k} |-> IF x = k THEN v ELSE f[x]]

RemoveAt(s, i) == SubSeq(s, 1, i - 1) \o SubSeq(s, i + 1, Len(s))

----------------------------------------------------------------------------
(* Configuration: adapter.defaults and connection.js *)

ConfigFields ==
    {"identity", "url", "uri", "user", "password", "database", "readOnly",
     "readPreference", "auto_reconnect", "reconnectInterval", "reconnectTries",
     "useUnifiedTopology", "authSource", "useNewUrlParser"}

\* adapter.defaults: identity, uri, useUnifiedTopology, authSource and
\* useNewUrlParser have no default.
defaults ==
    [identity |-> Undefined, url |-> Null, uri |-> Undefined, user |-> Null,
     password |-> Null, database |-> "sails", readOnly |-> "false",
     readPreference |-> Null, auto_reconnect |-> "true",
     reconnectInterval |-> "1000", reconnectTries |-> "30",
     useUnifiedTopology |-> Undefined, authSource |-> Undefined,
     useNewUrlParser |-> Undefined]

\* _.defaults(connection, this.defaults): only undefined properties are filled.
MergeDefaults(connection) ==
    [f \in ConfigFields |->
        IF connection[f] = Undefined THEN defaults[f] ELSE connection[f]]

\* The query strings the model's uris carry, as parsed by querystring.parse.
QueryOf(uri) ==
    IF uri = "mongodb://h/x?database=" THEN [database |-> ""]
    ELSE IF uri = "mongodb://h/x?authSource=admin" THEN [authSource |-> "admin"]
    ELSE NoFn

HasQuery(uri) ==
    uri \in {"mongodb://h/x?database=", "mongodb://h/x?authSource=admin"}

\* extractQueryFromUri: undefined for a falsy uri, else the parsed query or {}.
extractQueryFromUri(uri) ==
    IF ~Truthy(uri) THEN NoFn
    ELSE IF HasQuery(uri) THEN QueryOf(uri)
    ELSE NoFn

\* _buildConnection, lines 283-287: queryParams come from config.uri, and are
\* read only when config.url is set; _.defaults({}, queryParams, config, ...)
\* lets the first source that defines a property win; the last source is
\* {useNewUrlParser: true}.
availableConfiguration(config) ==
    LET queryParams == IF Truthy(config.url) THEN extractQueryFromUri(config.uri)
                       ELSE NoFn
    IN  [f \in ConfigFields |->
            IF f \in DOMAIN queryParams THEN queryParams[f]
            ELSE IF config[f] # Undefined THEN config[f]
            ELSE IF f = "useNewUrlParser" THEN "true"
            ELSE Undefined]

\* The database check of buildConnectionString left out.
AuthWithoutDatabaseMut(params) == FALSE

\* buildConnectionString throws when user and password are set without database.
AuthWithoutDatabase(params) ==
    Truthy(params.user) /\ Truthy(params.password) /\ ~Truthy(params.database)

\* A part of the connection string, or an option, that is not there.
Absent == "absent"

\* buildConnectionString, lines 251-272: the parts of the string it builds
\* besides the host and the port, which every configuration has.
buildConnectionString(params) ==
    [url |-> Absent,
     user |-> IF Truthy(params.user) /\ Truthy(params.password)
              THEN params.user ELSE Absent,
     password |-> IF Truthy(params.user) /\ Truthy(params.password)
                  THEN params.password ELSE Absent,
     database |-> IF Truthy(params.database) THEN params.database ELSE Absent]

\* _buildConnection, lines 300-314: the url when there is one, else the string
\* built from the other fields.
connectionString(available) ==
    IF Truthy(available.url)
    THEN [url |-> available.url, user |-> Absent, password |-> Absent,
          database |-> Absent]
    ELSE buildConnectionString(available)

OptionNames ==
    {"readPreference", "autoReconnect", "reconnectInterval", "reconnectTries",
     "useUnifiedTopology", "authSource", "useNewUrlParser"}

\* The field of the configuration an option of the driver is read from.
FieldOf(option) == IF option = "autoReconnect" THEN "auto_reconnect" ELSE option

\* _buildConnection, lines 289-299 and 315-317: the options handed to
\* MongoClient.connect.  Nothing assigns connectionOptions.useNewUrlParser.
connectionOptions(available) ==
    [n \in OptionNames |->
        IF n \in {"readPreference", "autoReconnect", "reconnectInterval",
                  "reconnectTries"}
        THEN IF ~Truthy(available.useUnifiedTopology) THEN available[FieldOf(n)]
             ELSE Absent
        ELSE IF n = "useUnifiedTopology"
        THEN IF ~Truthy(available.useUnifiedTopology) THEN Absent ELSE "true"
        ELSE IF n = "authSource"
        THEN IF available.authSource # Undefined THEN available.authSource
             ELSE Absent
        ELSE Absent]

\* _buildConnection: the url branch uses the url as is; the other branch calls
\* buildConnectionString, which may throw before MongoClient.connect is reached.
BuildThrows(config) ==
    LET available == availableConfiguration(config)
    IN  IF Truthy(available.url) THEN FALSE ELSE AuthWithoutDatabase(available)

----------------------------------------------------------------------------
(* Inputs *)

\* The configurations callers pass to registerConnection.
AuthShapes ==
    { [url |-> Undefined, uri |-> Undefined, user |-> Undefined,
       password |-> Undefined, database |-> Undefined],
      [url |-> Undefined, uri |-> Undefined, user |-> "u",
       password |-> "p", database |-> Undefined],
      [url |-> Undefined, uri |-> Undefined, user |-> "u",
       password |-> "p", database |-> Null],
      [url |-> "mongodb://h/x", uri |-> Undefined, user |-> "u",
       password |-> "p", database |-> Null] }

Config(i, s, r) ==
    [f \in ConfigFields |->
        IF f = "identity" THEN i
        ELSE IF f = "readOnly" THEN r
        ELSE IF f \in DOMAIN s THEN s[f]
        ELSE Undefined]

Plain == [url |-> Undefined, uri |-> Undefined, user |-> Undefined,
          password |-> Undefined, database |-> Undefined]

\* Every shape under identity "a"; the plain shape under "b" and under no identity.
ConfigInputs ==
    { Config("a", s, Undefined) : s \in AuthShapes }
        \cup { Config(i, Plain, Undefined) : i \in {"b", Undefined} }

\* Configurations under identity "a" that differ in what the connection
\* string and the options of the connect call are built from.
OpenShapes ==
    { Plain,
      [user |-> "u", password |-> "p"],
      [user |-> "u"],
      [password |-> "p"],
      [user |-> "u", password |-> "p", database |-> Null],
      [url |-> "mongodb://h/x?authSource=admin"],
      [url |-> "mongodb://h/x?authSource=admin", authSource |-> "other"],
      [url |-> "mongodb://h/x?authSource=admin",
       uri |-> "mongodb://h/x?authSource=admin", authSource |-> "other"],
      [url |-> "mongodb://h/x", useNewUrlParser |-> "false"],
      [useUnifiedTopology |-> "true", readPreference |-> "secondary"] }

OpenConfigInputs == { Config("a", s, Undefined) : s \in OpenShapes }

\* The collection definitions callers pass to registerConnection.
CollDefs == {CollNames}

\* Criteria: every document, or the documents that still have the inserted value.
Criteria == {"all", "v0"}

\* The values update writes; insert writes "v0".
Values == {"v1"}

----------------------------------------------------------------------------
(* Events: what one step did, as its caller and the driver see it *)

Event(op, phase, id, cb, err, threw, calls) ==
    [op |-> op, phase |-> phase, id |-> id, cb |-> cb, err |-> err,
     cause |-> "none", threw |-> threw, calls |-> calls, res |-> {},
     coll |-> "none", criteria |-> "none", on |-> 0, logged |-> {}]

None == "none"

Init ==
    /\ connections = NoFn
    /\ clients = <<>>
    /\ opens = <<>>
    /\ closes = <<>>
    /\ destroys = <<>>
    /\ storeColls = {}
    /\ storeIdx = {}
    /\ storeDocs = [c \in CollNames |-> NoFn]
    /\ ev = Event("init", "call", Undefined, 0, None, None, {})
    /\ okCount = [i \in Ids |-> 0]
    /\ tornDown = FALSE
    /\ joins = {}

StoreVars == <<storeColls, storeIdx, storeDocs, destroys>>

----------------------------------------------------------------------------
(* registerConnection, adapter.js:95-132 *)

\* The identity check left out.
IdentityMissingMut(connection) == FALSE

\* line 98: if (!connection.identity)
IdentityMissing(connection) == ~Truthy(connection.identity)

\* The duplicate check left out.
IdentityDuplicateMut(connection) == FALSE

\* line 99: if (connections[connection.identity])
IdentityDuplicate(connection) == connection.identity \in DOMAIN connections

\* lines 105-108: the entry stored before the connection is opened.
\* line 111: the log line holds JSON.stringify(connection), that is every
\* field of the merged configuration that is not undefined, with its value.
Stringified(config) == {f \in ConfigFields : config[f] # Undefined}

NewEntry(config) == [config |-> config, connection |-> 0, collections |-> NoFn]

registerConnection(connection, collections) ==
    /\ UNCHANGED <<clients, closes, StoreVars, joins, okCount, tornDown>>
    /\ IF IdentityMissing(connection)
       THEN /\ ev' = Event("registerConnection", "call", Undefined, 1,
                           "IdentityMissing", None, {})
            /\ UNCHANGED <<connections, opens>>
       ELSE IF IdentityDuplicate(connection)
       THEN /\ ev' = Event("registerConnection", "call", connection.identity, 1,
                           "IdentityDuplicate", None, {})
            /\ UNCHANGED <<connections, opens>>
       ELSE LET config == MergeDefaults(connection)
                available == availableConfiguration(config)
            IN
            /\ connections' = With(connections, config.identity, NewEntry(config))
            /\ IF BuildThrows(config)
               THEN /\ ev' = [Event("registerConnection", "call", config.identity, 0,
                                    None, "ConfigurationError", {})
                                EXCEPT !.logged = Stringified(config)]
                    /\ UNCHANGED opens
               ELSE /\ Len(opens) < MaxOpens
                    /\ opens' = Append(opens,
                                   [identity |-> config.identity,
                                    readOnly |-> config.readOnly,
                                    collections |-> collections,
                                    connectionString |-> connectionString(available),
                                    connectionOptions |-> connectionOptions(available)])
                    /\ ev' = [Event("registerConnection", "call", config.identity, 0,
                                    None, None, {"connect"})
                                EXCEPT !.logged = Stringified(config)]

\* Connection, connection.js:172-190, and the callback of registerConnection,
\* adapter.js:112-130.  outcome is what MongoClient.connect reports.
ConnectOutcomes == {"ok", "error", "noclient"}

\* lines 122-127: the entry gets the Connection and one Collection per key.
OpenedEntry(entry, h, collections) ==
    [entry EXCEPT !.connection = h,
                  !.collections = [k \in (DOMAIN entry.collections) \cup collections |->
                                      IF k \in collections THEN h
                                      ELSE entry.collections[k]]]

openDone(i, outcome) ==
    LET o == opens[i] IN
    /\ opens' = RemoveAt(opens, i)
    /\ UNCHANGED <<closes, StoreVars, joins, tornDown>>
    /\ IF outcome # "ok"
       THEN /\ ev' = [Event("registerConnection", "callback", o.identity, 1,
                            "ConnectionFailure", None, {})
                        EXCEPT !.cause = IF outcome = "error" THEN "driver error"
                                         ELSE "no db object"]
            /\ UNCHANGED <<connections, clients, okCount>>
       ELSE /\ Len(clients) < MaxClients
            /\ clients' = Append(clients, [state |-> "open", readOnly |-> o.readOnly])
            /\ IF o.identity \notin DOMAIN connections
               THEN /\ ev' = Event("registerConnection", "callback", o.identity, 0,
                                   None, "TypeError", {})
                    /\ UNCHANGED <<connections, okCount>>
               ELSE /\ connections' =
                          [connections EXCEPT ![o.identity] =
                              OpenedEntry(@, Len(clients) + 1, o.collections)]
                    /\ okCount' = IF tornDown THEN okCount
                                   ELSE [okCount EXCEPT ![o.identity] = @ + 1]
                    /\ ev' = Event("registerConnection", "callback", o.identity, 1,
                                   None, None, {})

----------------------------------------------------------------------------
(* teardown, adapter.js:143-176 *)

\* A Connection object has the properties config and client (connection.js:176,
\* 185) and no property db: reading .db gives undefined, also of an undefined
\* connection (lodash's property getter).
ConnectionDb(h) == Undefined

\* lines 150, 155: the db of every entry's connection, one per entry.
TeardownDbs == [i \in DOMAIN connections |-> ConnectionDb(connections[i].connection)]

\* lines 161-166: the handles close is called on.
TeardownClosed(dbs) == {dbs[i] : i \in DOMAIN dbs} \ {Undefined}

CloseAll(hs) ==
    [h \in DOMAIN clients |->
        IF h \in hs THEN [clients[h] EXCEPT !.state = "closed"] ELSE clients[h]]

teardownAll ==
    /\ UNCHANGED <<opens, closes, StoreVars, joins, okCount>>
    /\ IF DOMAIN connections = {}
       THEN /\ ev' = Event("teardown", "call", Null, 1, None, None, {})
            /\ UNCHANGED <<connections, clients, tornDown>>
       ELSE LET dbs == TeardownDbs IN
            /\ connections' = NoFn
            /\ clients' = CloseAll(TeardownClosed(dbs))
            /\ tornDown' = TRUE
            /\ ev' = Event("teardown", "call", Null, 1, None, None,
                           IF TeardownClosed(dbs) = {} THEN {} ELSE {"close"})

\* var connectionObject = connections[connectionName]: undefined when absent,
\* and reading a property of undefined throws a TypeError.
NoObject(connectionName) == connectionName \notin DOMAIN connections

\* connectionObject.connection is undefined until the open has succeeded.
NoConnection(connectionName) == connections[connectionName].connection = 0

\* The check for an unregistered identity left out.
NotRegisteredMut(conn) == FALSE

\* line 169: if (!connections[conn])
NotRegistered(conn) == conn \notin DOMAIN connections

\* The whole registry cleared instead of one entry.
RemoveEntryMut(conn) == NoFn

\* The entry kept by the close callback.
RemoveEntryKeepMut(conn) == connections

\* line 173: delete connections[conn]
RemoveEntry(conn) == Without(connections, conn)

teardownOne(conn) ==
    /\ UNCHANGED <<opens, StoreVars, joins, okCount, connections, tornDown>>
    /\ IF NotRegistered(conn)
       THEN /\ ev' = Event("teardown", "call", conn, 1, None, None, {})
            /\ UNCHANGED <<clients, closes>>
       ELSE IF NoObject(conn) \/ NoConnection(conn)
       THEN \* line 171: connections[conn].connection.client of undefined
            /\ ev' = Event("teardown", "call", conn, 0, None, "TypeError", {})
            /\ UNCHANGED <<clients, closes>>
       ELSE /\ Len(closes) < MaxCloses
            /\ clients' = CloseAll({connections[conn].connection})
            /\ closes' = Append(closes, [conn |-> conn])
            /\ ev' = Event("teardown", "call", conn, 0, None, None, {"close"})

\* lines 172-175: the callback of close.
closeDone(i) ==
    LET conn == closes[i].conn IN
    /\ closes' = RemoveAt(closes, i)
    /\ connections' = RemoveEntry(conn)
    /\ tornDown' = TRUE
    /\ ev' = Event("teardown", "callback", conn, 1, None, None, {})
    /\ UNCHANGED <<clients, opens, StoreVars, joins, okCount>>

----------------------------------------------------------------------------
(* Registry lookups of the adapter verbs *)

\* connectionObject.collections[collectionName] is undefined for an unknown name.
NoCollection(connectionName, collectionName) ==
    collectionName \notin DOMAIN connections[connectionName].collections

\* The readOnly flag ignored.
ReadOnlyMut(connectionName) == FALSE

\* connectionObject.connection.config.readOnly
ReadOnly(connectionName) ==
    Truthy(clients[connections[connectionName].connection].readOnly)

Throws(op, connectionName) ==
    /\ ev' = Event(op, "call", connectionName, 0, None, "TypeError", {})
    /\ UNCHANGED <<storeColls, storeIdx, storeDocs, destroys>>

\* cb() of a read-only connection: no driver call, no result.
NoOp(op, connectionName) ==
    /\ ev' = Event(op, "call", connectionName, 1, None, None, {})
    /\ UNCHANGED <<storeColls, storeIdx, storeDocs, destroys>>

Registry == <<connections, clients, opens, closes, okCount, tornDown>>

----------------------------------------------------------------------------
(* Collection (lib/collection.js) over the store driver *)

StoreOutcomes == {"ok", "error"}

Matches(collectionName, criteria) ==
    {d \in DOMAIN storeDocs[collectionName] :
        criteria = "all" \/ storeDocs[collectionName][d] = criteria}

\* Collection.insert: the documents are added to the collection, which the store
\* creates when it does not exist; an existing document is a duplicate key.
CanInsert(collectionName, data) == data \cap DOMAIN storeDocs[collectionName] = {}

CollectionInsert(collectionName, data) ==
    /\ storeDocs' = [storeDocs EXCEPT ![collectionName] =
                        [d \in (DOMAIN @) \cup data |-> IF d \in data THEN "v0" ELSE @[d]]]
    /\ storeColls' = storeColls \cup {collectionName}
    /\ UNCHANGED storeIdx

\* Collection.update: every matching document gets the values.
CollectionUpdate(collectionName, criteria, values) ==
    /\ storeDocs' = [storeDocs EXCEPT ![collectionName] =
                        [d \in DOMAIN @ |->
                            IF d \in Matches(collectionName, criteria) THEN values ELSE @[d]]]
    /\ UNCHANGED <<storeColls, storeIdx>>

\* Collection.destroy: every matching document is deleted.
CollectionDestroy(collectionName, criteria) ==
    /\ storeDocs' = [storeDocs EXCEPT ![collectionName] =
                        [d \in (DOMAIN @) \ Matches(collectionName, criteria) |-> @[d]]]
    /\ UNCHANGED <<storeColls, storeIdx>>

----------------------------------------------------------------------------
(* create, createEach, find, update, destroy: adapter.js:317-446 *)

create(connectionName, collectionName, data, outcome) ==
    /\ UNCHANGED <<Registry, joins>>
    /\ IF NoObject(connectionName) THEN Throws("create", connectionName)
       ELSE IF NoConnection(connectionName) THEN Throws("create", connectionName)
       ELSE IF ReadOnly(connectionName) THEN NoOp("create", connectionName)
       ELSE IF NoCollection(connectionName, collectionName)
       THEN Throws("create", connectionName)
       ELSE /\ UNCHANGED destroys
            /\ IF outcome = "ok" /\ CanInsert(collectionName, {data})
               THEN /\ CollectionInsert(collectionName, {data})
                    /\ ev' = [Event("create", "call", connectionName, 1, None, None,
                                    {"insert"}) EXCEPT !.res = {data}]
               ELSE /\ UNCHANGED <<storeColls, storeIdx, storeDocs>>
                    /\ ev' = Event("create", "call", connectionName, 1, "StoreError",
                                   None, {"insert"})

createEach(connectionName, collectionName, data, outcome) ==
    /\ UNCHANGED <<Registry, joins>>
    /\ IF data = {} THEN NoOp("createEach", connectionName)
       ELSE IF NoObject(connectionName) THEN Throws("createEach", connectionName)
       ELSE IF NoCollection(connectionName, collectionName)
       THEN Throws("createEach", connectionName)
       ELSE /\ UNCHANGED destroys
            /\ IF outcome = "ok" /\ CanInsert(collectionName, data)
               THEN /\ CollectionInsert(collectionName, data)
                    /\ ev' = [Event("createEach", "call", connectionName, 1, None, None,
                                    {"insert"}) EXCEPT !.res = data]
               ELSE /\ UNCHANGED <<storeColls, storeIdx, storeDocs>>
                    /\ ev' = Event("createEach", "call", connectionName, 1, "StoreError",
                                   None, {"insert"})

find(connectionName, collectionName, options, outcome) ==
    /\ UNCHANGED <<Registry, joins>>
    /\ IF NoObject(connectionName) THEN Throws("find", connectionName)
       ELSE IF NoCollection(connectionName, collectionName)
       THEN Throws("find", connectionName)
       ELSE /\ UNCHANGED <<storeColls, storeIdx, storeDocs, destroys>>
            /\ IF outcome = "ok"
               THEN ev' = [Event("find", "call", connectionName, 1, None, None, {"find"})
                              EXCEPT !.res = Matches(collectionName, options)]
               ELSE ev' = Event("find", "call", connectionName, 1, "StoreError", None,
                                {"find"})

update(connectionName, collectionName, options, values, outcome) ==
    /\ UNCHANGED <<Registry, joins>>
    /\ IF NoObject(connectionName) THEN Throws("update", connectionName)
       ELSE IF NoConnection(connectionName) THEN Throws("update", connectionName)
       ELSE IF ReadOnly(connectionName) THEN NoOp("update", connectionName)
       ELSE IF NoCollection(connectionName, collectionName)
       THEN Throws("update", connectionName)
       ELSE /\ UNCHANGED destroys
            /\ IF outcome = "ok"
               THEN /\ CollectionUpdate(collectionName, options, values)
                    /\ ev' = [Event("update", "call", connectionName, 1, None, None,
                                    {"update"})
                                EXCEPT !.res = Matches(collectionName, options)]
               ELSE /\ UNCHANGED <<storeColls, storeIdx, storeDocs>>
                    /\ ev' = Event("update", "call", connectionName, 1, "StoreError",
                                   None, {"update"})

\* destroy up to the return of collection.find: the find is issued, its callback
\* is delivered by destroyFound.
destroy(connectionName, collectionName, options, outcome) ==
    /\ UNCHANGED <<Registry, joins>>
    /\ IF NoObject(connectionName) THEN Throws("destroy", connectionName)
       ELSE IF NoConnection(connectionName) THEN Throws("destroy", connectionName)
       ELSE IF ReadOnly(connectionName) THEN NoOp("destroy", connectionName)
       ELSE IF NoCollection(connectionName, collectionName)
       THEN Throws("destroy", connectionName)
       ELSE /\ Len(destroys) < MaxDestroys
            /\ destroys' = Append(destroys,
                              [connectionName |-> connectionName,
                               collectionName |-> collectionName,
                               options |-> options,
                               err |-> outcome # "ok",
                               results |-> IF outcome = "ok"
                                           THEN Matches(collectionName, options)
                                           ELSE {}])
            /\ UNCHANGED <<storeColls, storeIdx, storeDocs>>
            /\ ev' = Event("destroy", "call", connectionName, 0, None, None, {"find"})

\* The result of the delete returned instead of the records found.
DestroyResultsMut(d) == {}

\* line 442: cb(null, results), the results of the find.
DestroyResults(d) == d.results

\* The error of the find ignored.
FindFailedMut(d) == FALSE

\* line 437: if (err) return cb(err), in the callback of the find.
FindFailed(d) == d.err

\* lines 436-443: the callback of the find, the delete and its callback.
destroyFound(i, outcome) ==
    LET d == destroys[i] IN
    /\ UNCHANGED <<Registry, joins>>
    /\ destroys' = RemoveAt(destroys, i)
    /\ IF FindFailed(d)
       THEN /\ UNCHANGED <<storeColls, storeIdx, storeDocs>>
            /\ ev' = Event("destroy", "callback", d.connectionName, 1, "StoreError",
                           None, {})
       ELSE IF outcome = "ok"
       THEN /\ CollectionDestroy(d.collectionName, d.options)
            /\ ev' = [Event("destroy", "callback", d.connectionName, 1, None, None,
                            {"delete"}) EXCEPT !.res = DestroyResults(d)]
       ELSE /\ UNCHANGED <<storeColls, storeIdx, storeDocs>>
            /\ ev' = Event("destroy", "callback", d.connectionName, 1, "StoreError",
                           None, {"delete"})

----------------------------------------------------------------------------
(* define and drop: adapter.js:211-262, connection.js:207-229, 342-349 *)

\* The failure of an index creation not passed on.
EnsureIndexesErrorMut(created) == None

\* _ensureIndexes, line 348: async.each calls back with the first error of a
\* createIndex, or without error when every one has completed.
EnsureIndexesError(created) == IF created = IdxNames THEN None ELSE "StoreError"

\* Connection.createCollection and _ensureIndexes: the collection is created,
\* then every declared index is asked for at once (async.each); created is the
\* set of indexes the store creates, and the first failure is the error.
createCollection(connectionName, collectionName, outcome, created) ==
    IF outcome # "ok"
    THEN /\ UNCHANGED <<storeColls, storeIdx>>
         /\ ev' = Event("define", "call", connectionName, 1, "StoreError", None,
                        {"createCollection"})
    ELSE /\ storeColls' = storeColls \cup {collectionName}
         /\ IF NoCollection(connectionName, collectionName)
            THEN \* collection.indexes of undefined, in the callback
                 /\ UNCHANGED storeIdx
                 /\ ev' = Event("define", "call", connectionName, 0, None, "TypeError",
                                {"createCollection"})
            ELSE /\ storeIdx' = storeIdx \cup {<<collectionName, x>> : x \in created}
                 /\ ev' = Event("define", "call", connectionName, 1,
                                EnsureIndexesError(created),
                                None, {"createCollection", "createIndex"})

define(connectionName, collectionName, outcome, created) ==
    /\ UNCHANGED <<Registry, joins>>
    /\ IF NoObject(connectionName) THEN Throws("define", connectionName)
       ELSE IF NoConnection(connectionName) THEN Throws("define", connectionName)
       ELSE IF ReadOnly(connectionName) THEN NoOp("define", connectionName)
       ELSE /\ UNCHANGED <<storeDocs, destroys>>
            /\ createCollection(connectionName, collectionName, outcome, created)

\* What the store answers to dropCollection: it drops an existing collection,
\* reports "ns not found" for an absent one, or fails otherwise.
DropAnswer(collectionName, outcome) ==
    IF outcome # "ok" THEN "error"
    ELSE IF collectionName \notin storeColls THEN "ns not found"
    ELSE "dropped"

\* "ns not found" passed on like any other error.
DropErrorMut(answer) == IF answer = "dropped" THEN None ELSE "StoreError"

\* lines 256-258: the error the callback of drop passes to its caller.
DropError(answer) ==
    IF answer = "ns not found" THEN None
    ELSE IF answer = "error" THEN "StoreError"
    ELSE None

\* Connection.dropCollection and the callback of drop, lines 253-259.
dropCollection(connectionName, collectionName, outcome) ==
    LET answer == DropAnswer(collectionName, outcome) IN
    /\ ev' = [Event("drop", "call", connectionName, 1, DropError(answer), None,
                    {"dropCollection"})
                EXCEPT !.cause = answer]
    /\ IF answer = "dropped"
       THEN /\ storeColls' = storeColls \ {collectionName}
            /\ storeIdx' = {x \in storeIdx : x[1] # collectionName}
            /\ storeDocs' = [storeDocs EXCEPT ![collectionName] = NoFn]
       ELSE UNCHANGED <<storeColls, storeIdx, storeDocs>>

drop(connectionName, collectionName, outcome) ==
    /\ UNCHANGED <<Registry, joins>>
    /\ IF NoObject(connectionName) THEN Throws("drop", connectionName)
       ELSE IF NoConnection(connectionName) THEN Throws("drop", connectionName)
       ELSE IF ReadOnly(connectionName) THEN NoOp("drop", connectionName)
       ELSE /\ UNCHANGED destroys
            /\ dropCollection(connectionName, collectionName, outcome)

----------------------------------------------------------------------------
(* describe: adapter.js:189-198 *)

\* collection.schema, the definition the collection was registered with.
SchemaOf(collectionName) ==
    IF collectionName = "users" THEN "schema of users" ELSE "schema of posts"

\* client.db().listCollections(collectionName) returns a cursor of the driver;
\* a cursor has no length property, whatever the store holds.
ListCollectionsLength(collectionName) == Undefined

\* names.length > 0: undefined compares false with every number.
GreaterThanZero(length) == IF length = Undefined THEN FALSE ELSE length > 0

describe(connectionName, collectionName) ==
    /\ UNCHANGED <<Registry, joins>>
    /\ IF NoObject(connectionName) THEN Throws("describe", connectionName)
       ELSE IF NoCollection(connectionName, collectionName)
       THEN Throws("describe", connectionName)
       ELSE IF NoConnection(connectionName) THEN Throws("describe", connectionName)
       ELSE /\ UNCHANGED StoreVars
            /\ ev' = [Event("describe", "call", connectionName, 1, None, None,
                            {"listCollections"})
                        EXCEPT !.coll = collectionName,
                               !.res = IF GreaterThanZero(
                                            ListCollectionsLength(collectionName))
                                       THEN {SchemaOf(collectionName)}
                                       ELSE {}]

----------------------------------------------------------------------------
(* join and the callbacks it hands to the join planner: adapter.js:484-536 *)

\* The collection identities the planner passes to $find and $getPK.
JoinIdentities == CollNames \cup {Undefined}

\* Collection._getPK: the name of the primary-key field of the collection.
PKOf(collectionIdentity) ==
    IF collectionIdentity = "users" THEN "pk of users" ELSE "pk of posts"

\* lines 491-492 and the call of the planner: connectionObject.collections
\* throws for an unknown connection; the parent collection is not looked at.
join(connectionName, collectionName) ==
    /\ UNCHANGED <<Registry, StoreVars>>
    /\ IF NoObject(connectionName)
       THEN /\ ev' = Event("join", "call", connectionName, 0, None, "TypeError", {})
            /\ UNCHANGED joins
       ELSE /\ joins' = joins \cup {connectionName}
            /\ ev' = [Event("join", "call", connectionName, 0, None, None,
                            {"runJoins"}) EXCEPT !.coll = collectionName]

\* Every identity taken for a collection of the connection.
UnrecognizedCollectionMut(connectionName, collectionIdentity) == FALSE

\* lines 528-529: var collection = ...collections[collectionIdentity]; !collection
UnrecognizedCollection(connectionName, collectionIdentity) ==
    collectionIdentity \notin DOMAIN connections[connectionName].collections

\* $getPK, lines 522-533, called by the planner of a pending join.
getPK(connectionName, collectionIdentity) ==
    LET called == [Event("$getPK", "call", connectionName, 0, None, None, {})
                     EXCEPT !.coll = collectionIdentity]
    IN  /\ UNCHANGED <<Registry, StoreVars, joins>>
        /\ ev' = IF ~Truthy(collectionIdentity) THEN called
                 ELSE IF NoObject(connectionName)
                 THEN [called EXCEPT !.threw = "ConsistencyViolation",
                                     !.cause = "Unrecognized datastore"]
                 ELSE IF UnrecognizedCollection(connectionName, collectionIdentity)
                 THEN [called EXCEPT !.threw = "ConsistencyViolation",
                                     !.cause = "Unrecognized collection"]
                 ELSE [called EXCEPT !.res = {PKOf(collectionIdentity)}]

\* The collection of another connection that has one of this name.
JoinCollectionMut(connectionName, collectionIdentity) ==
    LET others == {j \in DOMAIN connections :
                      /\ j # connectionName
                      /\ collectionIdentity \in DOMAIN connections[j].collections}
    IN  IF others = {} THEN connections[connectionName].collections[collectionIdentity]
        ELSE connections[CHOOSE j \in others : TRUE].collections[collectionIdentity]

\* lines 510-511: connections[connectionName].collections[collectionIdentity]
JoinCollection(connectionName, collectionIdentity) ==
    connections[connectionName].collections[collectionIdentity]

\* $find, lines 509-513, called by the planner of a pending join.
joinFind(connectionName, collectionIdentity, criteria, outcome) ==
    LET called == [Event("$find", "call", connectionName, 0, None, None, {})
                     EXCEPT !.coll = collectionIdentity, !.criteria = criteria]
    IN  /\ UNCHANGED <<Registry, StoreVars, joins>>
        /\ ev' = IF NoObject(connectionName)
                 THEN [called EXCEPT !.threw = "TypeError"]
                 ELSE IF NoCollection(connectionName, collectionIdentity)
                 THEN [called EXCEPT !.threw = "TypeError"]
                 ELSE [called EXCEPT
                         !.cb = 1,
                         !.calls = {"find"},
                         !.on = JoinCollection(connectionName, collectionIdentity),
                         !.err = IF outcome = "ok" THEN None ELSE "StoreError",
                         !.res = IF outcome = "ok"
                                 THEN Matches(collectionIdentity, criteria)
                                 ELSE {}]

\* The planner calls the callback of join.
joinDone(connectionName, outcome) ==
    /\ UNCHANGED <<Registry, StoreVars>>
    /\ joins' = joins \ {connectionName}
    /\ ev' = Event("join", "callback", connectionName, 1,
                   IF outcome = "ok" THEN None ELSE "JoinError", None, {})

----------------------------------------------------------------------------

Next ==
    \/ \E connection \in ConfigInputs, collections \in CollDefs :
          registerConnection(connection, collections)
    \/ \E i \in DOMAIN opens, outcome \in ConnectOutcomes : openDone(i, outcome)
    \/ teardownAll
    \/ \E conn \in Ids : teardownOne(conn)
    \/ \E i \in DOMAIN closes : closeDone(i)

Spec == Init /\ [][Next]_vars

(* The adapter verbs over a read-only connection "a" and a writable "b". *)

StoreConfigInputs == {Config("a", Plain, "true"), Config("b", Plain, Undefined)}

StoreCollDefs == {{"users"}}

NextStore ==
    \/ \E connection \in StoreConfigInputs, collections \in StoreCollDefs :
          registerConnection(connection, collections)
    \/ \E i \in DOMAIN opens, outcome \in ConnectOutcomes : openDone(i, outcome)
    \/ \E c \in Ids, n \in CollNames, d \in Docs, o \in StoreOutcomes :
          create(c, n, d, o)
    \/ \E c \in Ids, n \in CollNames, d \in SUBSET Docs, o \in StoreOutcomes :
          createEach(c, n, d, o)
    \/ \E c \in Ids, n \in CollNames, q \in Criteria, o \in StoreOutcomes :
          find(c, n, q, o)
    \/ \E c \in Ids, n \in CollNames, q \in Criteria, v \in Values,
          o \in StoreOutcomes : update(c, n, q, v, o)
    \/ \E c \in Ids, n \in CollNames, q \in Criteria, o \in StoreOutcomes :
          destroy(c, n, q, o)
    \/ \E i \in DOMAIN destroys, o \in StoreOutcomes : destroyFound(i, o)
    \/ \E c \in Ids, n \in CollNames, o \in StoreOutcomes, x \in {{}, IdxNames} :
          define(c, n, o, x)
    \/ \E c \in Ids, n \in CollNames, o \in StoreOutcomes : drop(c, n, o)
    \/ \E c \in Ids, n \in CollNames : describe(c, n)

SpecStore == Init /\ [][NextStore]_vars

(* Joins over the connections "a" and "b", each with the collection "users",
   whose documents are inserted through "b". *)

NextJoin ==
    \/ \E connection \in StoreConfigInputs, collections \in StoreCollDefs :
          registerConnection(connection, collections)
    \/ \E i \in DOMAIN opens, outcome \in ConnectOutcomes : openDone(i, outcome)
    \/ teardownAll
    \/ createEach("b", "users", Docs, "ok")
    \/ \E c \in Ids : join(c, "users")
    \/ \E c \in joins, n \in JoinIdentities : getPK(c, n)
    \/ \E c \in joins, n \in JoinIdentities, q \in Criteria,
          o \in StoreOutcomes : joinFind(c, n, q, o)
    \/ \E c \in joins, o \in StoreOutcomes : joinDone(c, o)

SpecJoin == Init /\ [][NextJoin]_vars

(* define and drop, with every subset of the declared indexes created. *)

NextDefine ==
    \/ \E connection \in StoreConfigInputs, collections \in StoreCollDefs :
          registerConnection(connection, collections)
    \/ \E i \in DOMAIN opens, outcome \in ConnectOutcomes : openDone(i, outcome)
    \/ \E c \in Ids, n \in CollNames, o \in StoreOutcomes, x \in SUBSET IdxNames :
          define(c, n, o, x)
    \/ \E c \in Ids, n \in CollNames, o \in StoreOutcomes : drop(c, n, o)

SpecDefine == Init /\ [][NextDefine]_vars

(* The connection strings and options of the configurations of "a". *)

NextOpen ==
    \/ \E connection \in OpenConfigInputs, collections \in CollDefs :
          registerConnection(connection, collections)
    \/ \E i \in DOMAIN opens, outcome \in ConnectOutcomes : openDone(i, outcome)
    \/ teardownAll

SpecOpen == Init /\ [][NextOpen]_vars

----------------------------------------------------------------------------
(* Claims about registerConnection *)

IsCall(op) == ev'.op = op /\ ev'.phase = "call"

Fresh(connection) ==
    Truthy(connection.identity) /\ connection.identity \notin DOMAIN connections

\* C1: a registerConnection call whose identity has an entry, opened or still
\* pending, is answered IdentityDuplicate once, calls no connect and leaves the
\* registry as it was; and as long as no teardown has changed the registry, at
\* most one registerConnection per identity has succeeded.
C1_DuplicateRejected ==
    /\ [][(IsCall("registerConnection") /\ ev'.id \in DOMAIN connections)
            => /\ ev'.err = "IdentityDuplicate"
               /\ ev'.cb = 1
               /\ ev'.calls = {}
               /\ opens' = opens
               /\ connections' = connections
               /\ clients' = clients]_vars
    /\ [](\A i \in Ids : okCount[i] <= 1)

\* A duplicate of an identity whose open is still pending has been rejected.
C1_Witness ==
    /\ ev.op = "registerConnection"
    /\ ev.err = "IdentityDuplicate"
    /\ ev.id \in DOMAIN connections
    /\ connections[ev.id].connection = 0
    /\ \E i \in DOMAIN opens : opens[i].identity = ev.id

\* C2: every identity in the registry has an entry with an opened handle and
\* its complete collection map.
C2_EntriesAreOpened ==
    \A i \in DOMAIN connections :
        /\ connections[i].connection # 0
        /\ DOMAIN connections[i].collections \in CollDefs

\* C3: a failed open is reported as a connection failure that wraps the cause,
\* and leaves no entry for the identity in the registry.
C3_FailedOpenLeavesNoEntry ==
    (ev.op = "registerConnection" /\ ev.phase = "callback"
        /\ ev.err = "ConnectionFailure")
        => /\ ev.cause # None
           /\ ev.id \notin DOMAIN connections

\* C4 as claimed: a registerConnection with user and password set and no
\* database in its configuration throws a configuration error and calls no
\* connect.
C4_AuthWithoutDatabaseThrows ==
    [][\A c \in ConfigInputs, d \in CollDefs :
          (registerConnection(c, d) /\ Fresh(c)
              /\ Truthy(c.user) /\ Truthy(c.password) /\ ~Truthy(c.database))
              => /\ ev'.threw = "ConfigurationError"
                 /\ opens' = opens]_vars

\* C4 as amended: a registerConnection that passes the identity checks, with
\* user and password set, no url, and a database given as an empty value (so
\* that the default database does not replace it), throws a configuration error
\* before its callback is called, and calls no connect.
C4_ExplicitEmptyDatabaseThrows ==
    [][\A c \in ConfigInputs, d \in CollDefs :
          (Fresh(c)
              /\ Truthy(c.user) /\ Truthy(c.password) /\ ~Truthy(c.url)
              /\ c.database # Undefined /\ ~Truthy(c.database)
              /\ registerConnection(c, d))
              => /\ ev'.threw = "ConfigurationError"
                 /\ ev'.cb = 0
                 /\ ev'.calls = {}
                 /\ opens' = opens]_vars

\* A registration has thrown the configuration error.
C4_Witness ==
    /\ ev.op = "registerConnection"
    /\ ev.threw = "ConfigurationError"
    /\ ev.id \in DOMAIN connections
    /\ Truthy(connections[ev.id].config.user)
    /\ connections[ev.id].config.database = Null

----------------------------------------------------------------------------
(* Claims about the read-only policy, under SpecStore *)

\* The connection of this identity is registered, opened and flagged read-only.
OpenedReadOnly(i) ==
    /\ i \in DOMAIN connections
    /\ connections[i].connection # 0
    /\ Truthy(clients[connections[i].connection].readOnly)

\* C5: create, createEach, update and destroy on a read-only connection call
\* no insert, update or delete of the store, succeed with an empty result and
\* leave the documents of the store unchanged.
C5_ReadOnlyVerbsAreNoOps ==
    [][(ev'.op \in {"create", "createEach", "update", "destroy"}
          /\ ev'.phase = "call" /\ OpenedReadOnly(ev'.id))
          => /\ ev'.cb = 1
             /\ ev'.err = None
             /\ ev'.threw = None
             /\ ev'.res = {}
             /\ ev'.calls = {}
             /\ storeDocs' = storeDocs]_vars

\* C6: define and drop on a registered read-only connection succeed, call no
\* createCollection, createIndex or dropCollection, and leave the collections
\* and indexes of the store unchanged.
C6_ReadOnlyDefineDropAreNoOps ==
    [][(ev'.op \in {"define", "drop"} /\ ev'.phase = "call"
          /\ OpenedReadOnly(ev'.id))
          => /\ ev'.cb = 1
             /\ ev'.err = None
             /\ ev'.threw = None
             /\ ev'.calls = {}
             /\ storeColls' = storeColls
             /\ storeIdx' = storeIdx
             /\ storeDocs' = storeDocs]_vars

\* drop on the read-only connection has succeeded while the store holds a
\* collection with its index and a document.
C6_Witness ==
    /\ ev.op = "drop"
    /\ ev.cb = 1
    /\ ev.err = None
    /\ OpenedReadOnly(ev.id)
    /\ "users" \in storeColls
    /\ <<"users", "i1">> \in storeIdx
    /\ DOMAIN storeDocs["users"] # {}

----------------------------------------------------------------------------
(* Claims about teardown *)

IsTeardownAll == IsCall("teardown") /\ ev'.id = Null

IsTeardownOne == ev'.op = "teardown" /\ ev'.id \in Ids

\* C7: teardown without identity calls close on the handle of every registered
\* connection and empties the registry; no handle of an entry stays open.
C7_TeardownAllClosesHandles ==
    [][IsTeardownAll
          => /\ connections' = NoFn
             /\ \A i \in DOMAIN connections :
                   connections[i].connection # 0
                       => clients'[connections[i].connection].state = "closed"]_vars

\* C8: teardown without identity on an empty registry, and teardown of an
\* identity that is not registered, call the callback once without error and
\* change neither the registry nor any handle.
C8_TeardownOfNothing ==
    [][(IsCall("teardown")
          /\ \/ ev'.id = Null /\ DOMAIN connections = {}
             \/ ev'.id \in Ids /\ ev'.id \notin DOMAIN connections)
          => /\ ev'.cb = 1
             /\ ev'.err = None
             /\ ev'.threw = None
             /\ ev'.calls = {}
             /\ connections' = connections
             /\ clients' = clients
             /\ closes' = closes]_vars

\* teardown of an identity that is not registered has called back, with
\* another identity registered and open.
C8_Witness ==
    /\ ev.op = "teardown"
    /\ ev.phase = "call"
    /\ ev.id \in Ids
    /\ ev.id \notin DOMAIN connections
    /\ ev.cb = 1
    /\ closes = <<>>
    /\ \E j \in DOMAIN connections : connections[j].connection # 0

\* C9: teardown of an entry whose handle is absent, and teardown without
\* identity over a registry with such an entry, raise no error and remove the
\* entry.
C9_TeardownToleratesAbsentHandle ==
    [][/\ (IsCall("teardown") /\ ev'.id \in DOMAIN connections
             /\ connections[ev'.id].connection = 0)
          => (ev'.threw = None /\ ev'.id \notin DOMAIN connections')
       /\ (IsTeardownAll /\ \E i \in DOMAIN connections : connections[i].connection = 0)
          => (ev'.threw = None /\ ev'.cb = 1 /\ connections' = NoFn)]_vars

\* C10: the call of teardown(identity) closes the handle of that identity's
\* entry and no other, its callback removes that identity's entry, and both
\* leave every other identity's entry and every other handle as they were.
C10_TeardownOneFrame ==
    [][IsTeardownOne
          => LET own == IF ev'.id \in DOMAIN connections
                        THEN {connections[ev'.id].connection} ELSE {}
             IN  /\ \A j \in Ids \ {ev'.id} :
                       /\ (j \in DOMAIN connections') = (j \in DOMAIN connections)
                       /\ j \in DOMAIN connections => connections'[j] = connections[j]
                 /\ DOMAIN clients' = DOMAIN clients
                 /\ \A h \in (DOMAIN clients) \ own : clients'[h] = clients[h]
                 /\ "close" \in ev'.calls
                       => \A h \in own : clients'[h].state = "closed"
                 /\ ev'.phase = "callback" => ev'.id \notin DOMAIN connections']_vars

\* teardown("a") has completed while "b" is registered with its handle open.
C10_Witness ==
    /\ ev.op = "teardown"
    /\ ev.phase = "callback"
    /\ ev.id = "a"
    /\ "a" \notin DOMAIN connections
    /\ "b" \in DOMAIN connections
    /\ connections["b"].connection # 0
    /\ clients[connections["b"].connection].state = "open"
    /\ DOMAIN connections["b"].collections = CollNames

----------------------------------------------------------------------------
(* Claims about the lifecycle of an identity *)

\* C11: an identity enters the registry only by a registerConnection call for
\* it and leaves it only by a teardown of it or of everything; when a teardown
\* has called back, the identity (or, without identity, every identity) is
\* absent; and registerConnection for an absent identity is not answered
\* IdentityDuplicate but stores the entry.
C11_Lifecycle ==
    /\ [][\A i \in Ids :
            /\ (i \in DOMAIN connections /\ i \notin DOMAIN connections')
                  => (ev'.op = "teardown" /\ ev'.id \in {i, Null})
            /\ (i \notin DOMAIN connections /\ i \in DOMAIN connections')
                  => (IsCall("registerConnection") /\ ev'.id = i)
            /\ (IsCall("registerConnection") /\ ev'.id = i
                   /\ i \notin DOMAIN connections)
                  => (ev'.err # "IdentityDuplicate" /\ i \in DOMAIN connections')]_vars
    /\ []((ev.op = "teardown" /\ ev.cb = 1)
            => IF ev.id = Null THEN connections = NoFn
               ELSE ev.id \notin DOMAIN connections)

\* "a" was registered and opened, a teardown removed it, and it has been
\* registered again: its new entry waits for its open.
C11_Witness ==
    /\ ev.op = "registerConnection"
    /\ ev.phase = "call"
    /\ ev.id = "a"
    /\ ev.calls = {"connect"}
    /\ okCount["a"] = 1
    /\ tornDown
    /\ connections["a"].connection = 0

----------------------------------------------------------------------------
(* Claims about destroy, drop and describe, under SpecStore *)

\* The connection of this identity is registered, opened and not read-only.
OpenedWritable(i) ==
    /\ i \in DOMAIN connections
    /\ connections[i].connection # 0
    /\ ~Truthy(clients[connections[i].connection].readOnly)

\* C12: the find step of a destroy on a writable connection keeps the records
\* that match the criteria at that moment; a destroy that completes without
\* error returns exactly the records of its find step, and none of them matches
\* the same criteria in the store it leaves.
C12_DestroyReturnsFound ==
    [][/\ (IsCall("destroy") /\ OpenedWritable(ev'.id) /\ ev'.threw = None)
            => /\ Len(destroys') = Len(destroys) + 1
               /\ LET d == destroys'[Len(destroys')] IN
                    ~d.err => d.results = Matches(d.collectionName, d.options)
       /\ (ev'.op = "destroy" /\ ev'.phase = "callback" /\ ev'.err = None)
            => \E i \in DOMAIN destroys :
                  LET d == destroys[i] IN
                  /\ destroys' = RemoveAt(destroys, i)
                  /\ ev'.cb = 1
                  /\ ev'.res = d.results
                  /\ \A r \in ev'.res :
                        \/ r \notin DOMAIN storeDocs'[d.collectionName]
                        \/ /\ d.options # "all"
                           /\ storeDocs'[d.collectionName][r] # d.options]_vars

\* A destroy has completed and returned the document its find step matched,
\* and the collection no longer holds it.
C12_Witness ==
    /\ ev.op = "destroy"
    /\ ev.phase = "callback"
    /\ ev.err = None
    /\ ev.res = {"d1"}
    /\ OpenedWritable(ev.id)
    /\ "d1" \notin DOMAIN storeDocs["users"]

\* C13: a drop on a registered writable connection asks the store to drop the
\* collection and calls back exactly once: without error when the store
\* dropped the collection or answered "ns not found", with the error of the
\* store for any other failure; it never throws.
C13_DropToleratesAbsent ==
    [][(IsCall("drop") /\ OpenedWritable(ev'.id))
          => /\ ev'.cb = 1
             /\ ev'.threw = None
             /\ ev'.calls = {"dropCollection"}
             /\ ev'.cause \in {"dropped", "ns not found", "error"}
             /\ ev'.cause \in {"dropped", "ns not found"} => ev'.err = None
             /\ ev'.cause = "error" => ev'.err = "StoreError"
             /\ ev'.cause = "dropped" => storeColls' # storeColls
             /\ ev'.cause # "dropped" => storeColls' = storeColls]_vars

\* A drop of a collection the store does not hold has succeeded on the
\* writable connection.
C13_Witness ==
    /\ ev.op = "drop"
    /\ ev.cause = "ns not found"
    /\ ev.cb = 1
    /\ ev.err = None
    /\ OpenedWritable(ev.id)
    /\ "users" \notin storeColls

\* C14: a describe that does not throw calls back once without error, and
\* returns the declared schema of the collection exactly when the store holds
\* the collection.
C14_DescribeReturnsSchemaIffExists ==
    [][(IsCall("describe") /\ ev'.threw = None)
          => /\ ev'.cb = 1
             /\ ev'.err = None
             /\ IF ev'.coll \in storeColls
                THEN ev'.res = {SchemaOf(ev'.coll)}
                ELSE ev'.res = {}]_vars

----------------------------------------------------------------------------
(* Claims about the callbacks of join, under SpecJoin *)

\* The connection has an entry that holds a collection of this identity.
RegisteredCollection(connectionName, collectionIdentity) ==
    /\ connectionName \in DOMAIN connections
    /\ collectionIdentity \in DOMAIN connections[connectionName].collections

\* C15 as stated: $getPK returns the primary-key field name of a collection
\* registered under the connection of the join, and for every other identity
\* it is called with it fails with a consistency violation and returns nothing.
C15_GetPKFailsUnlessRegistered ==
    [][IsCall("$getPK")
          => IF RegisteredCollection(ev'.id, ev'.coll)
             THEN ev'.threw = None /\ ev'.res = {PKOf(ev'.coll)}
             ELSE ev'.threw = "ConsistencyViolation" /\ ev'.res = {}]_vars

\* C15 amended: the same for the identities that are not empty; called with
\* an empty identity $getPK returns nothing and does not fail.
C15_GetPKOfNamedCollection ==
    [][IsCall("$getPK")
          => IF ~Truthy(ev'.coll)
             THEN ev'.threw = None /\ ev'.res = {}
             ELSE IF RegisteredCollection(ev'.id, ev'.coll)
             THEN ev'.threw = None /\ ev'.res = {PKOf(ev'.coll)}
             ELSE ev'.threw = "ConsistencyViolation" /\ ev'.res = {}]_vars

\* $getPK has failed for a collection the opened connection does not hold.
C15_Witness ==
    /\ ev.op = "$getPK"
    /\ ev.coll = "posts"
    /\ ev.threw = "ConsistencyViolation"
    /\ ev.id \in DOMAIN connections
    /\ "users" \in DOMAIN connections[ev.id].collections

\* C16: a $find of a pending join on a connection that holds a collection of
\* the identity runs one find on that very collection, which no other
\* connection holds, and a successful find returns the records that match the
\* criteria it was called with; for any other identity, or when the connection
\* is no longer registered, it throws and runs no find.
C16_FindInSameConnection ==
    [][IsCall("$find")
          => IF RegisteredCollection(ev'.id, ev'.coll)
             THEN /\ ev'.threw = None
                  /\ ev'.calls = {"find"}
                  /\ ev'.cb = 1
                  /\ ev'.on = connections[ev'.id].collections[ev'.coll]
                  /\ \A j \in DOMAIN connections \ {ev'.id} :
                        \A n \in DOMAIN connections[j].collections :
                           connections[j].collections[n] # ev'.on
                  /\ ev'.err = None
                        => ev'.res = Matches(ev'.coll, ev'.criteria)
             ELSE /\ ev'.threw = "TypeError"
                  /\ ev'.calls = {}
                  /\ ev'.cb = 0]_vars

\* A $find has returned a document of "users" while both connections hold a
\* collection of that identity.
C16_Witness ==
    /\ ev.op = "$find"
    /\ ev.coll = "users"
    /\ ev.criteria = "v0"
    /\ ev.res = {"d1"}
    /\ RegisteredCollection("a", "users")
    /\ RegisteredCollection("b", "users")
    /\ ev.on = connections[ev.id].collections["users"]

----------------------------------------------------------------------------
(* Claims about the connect call of registerConnection, under SpecOpen *)

\* The connect call this step has made.
Connect == opens'[Len(opens')]

\* C17: no log line written by a registerConnection whose configuration has a
\* password, nor by the callback of its open, holds the value of the password.
C17_PasswordNotLogged ==
    /\ [][\A c \in OpenConfigInputs, d \in CollDefs :
             (registerConnection(c, d) /\ Truthy(c.password))
                => "password" \notin ev'.logged]_vars
    /\ []((ev.op = "registerConnection" /\ ev.phase = "callback")
             => "password" \notin ev.logged)

\* C18: a registerConnection that passes the identity checks without url and
\* with exactly one of user and password throws a configuration error and
\* makes no connect call; and a connection string built without url holds
\* credentials only when user and password are both set.
C18_LoneCredentialRejected ==
    [][\A c \in OpenConfigInputs, d \in CollDefs :
          (registerConnection(c, d) /\ Fresh(c) /\ ~Truthy(c.url))
             => /\ (Truthy(c.user) # Truthy(c.password))
                    => (ev'.threw = "ConfigurationError" /\ opens' = opens)
                /\ (opens' # opens
                      /\ \/ Connect.connectionString.user # Absent
                         \/ Connect.connectionString.password # Absent)
                    => (Truthy(c.user) /\ Truthy(c.password))]_vars

\* C19: when the url of the configuration has a query string, the connect call
\* gets, for each option named in the query, the value the configuration sets
\* for that option if it sets one, and the value of the query otherwise.
C19_ExplicitOverQuery ==
    [][\A c \in OpenConfigInputs, d \in CollDefs :
          (registerConnection(c, d) /\ Fresh(c) /\ opens' # opens)
             => \A n \in OptionNames \cap DOMAIN QueryOf(c.url) :
                   Connect.connectionOptions[n] =
                      IF c[FieldOf(n)] # Undefined THEN c[FieldOf(n)]
                      ELSE QueryOf(c.url)[n]]_vars

\* C20: every connect call gets the option useNewUrlParser, with the value of
\* the configuration if it sets one and enabled otherwise.
C20_UseNewUrlParserPassed ==
    [][\A c \in OpenConfigInputs, d \in CollDefs :
          (registerConnection(c, d) /\ Fresh(c) /\ opens' # opens)
             => Connect.connectionOptions.useNewUrlParser =
                   IF c.useNewUrlParser # Undefined THEN c.useNewUrlParser
                   ELSE "true"]_vars

----------------------------------------------------------------------------
(* Claims about index provisioning, under SpecStore *)

\* C21: a collection is in the collection map of an entry only when the open
\* of the connection has completed; and when the open callback of a connection
\* that is not read-only has put its collections into the map and reported
\* success, every declared index of each of them exists in the store.
C21_VisibleAfterIndexes ==
    /\ \A i \in DOMAIN connections :
          DOMAIN connections[i].collections # {} => connections[i].connection # 0
    /\ (ev.op = "registerConnection" /\ ev.phase = "callback"
          /\ ev.cb = 1 /\ ev.err = None /\ OpenedWritable(ev.id))
          => \A n \in DOMAIN connections[ev.id].collections, x \in IdxNames :
                <<n, x>> \in storeIdx

\* C22: a define of a registered collection on an opened connection that is
\* not read-only calls back exactly once and does not throw; it succeeds only
\* when the collection and every declared index exist in the store; a failed
\* creation of the collection is passed on with no index creation and the
\* store unchanged; a failed index creation is passed on while the collection,
\* the indexes that were created and those that were there before remain.
C22_DefineResolvesOnce ==
    [][\A c \in Ids, n \in CollNames, o \in StoreOutcomes, x \in SUBSET IdxNames :
          (OpenedWritable(c) /\ RegisteredCollection(c, n) /\ define(c, n, o, x))
             => /\ ev'.cb = 1
                /\ ev'.threw = None
                /\ ev'.err = None
                      => /\ o = "ok"
                         /\ n \in storeColls'
                         /\ \A i \in IdxNames : <<n, i>> \in storeIdx'
                /\ o # "ok"
                      => /\ ev'.err = "StoreError"
                         /\ ev'.calls = {"createCollection"}
                         /\ storeColls' = storeColls
                         /\ storeIdx' = storeIdx
                /\ (o = "ok" /\ x # IdxNames)
                      => /\ ev'.err = "StoreError"
                         /\ n \in storeColls'
                         /\ storeIdx \subseteq storeIdx'
                         /\ \A i \in x : <<n, i>> \in storeIdx']_vars

\* A define has failed on its second index and the first one is in the store.
C22_Witness ==
    /\ ev.op = "define"
    /\ ev.cb = 1
    /\ ev.err = "StoreError"
    /\ "createIndex" \in ev.calls
    /\ OpenedWritable(ev.id)
    /\ <<"users", "i1">> \in storeIdx
    /\ <<"users", "i2">> \notin storeIdx

----------------------------------------------------------------------------
(* Claims about the resolution of registerConnection, under Spec *)

\* C23: a registerConnection whose configuration has no identity is answered
\* IdentityMissing once, does not throw, calls no connect and leaves the
\* registry, the pending opens and the clients as they were.
C23_IdentityMissingRejected ==
    [][\A c \in ConfigInputs, d \in CollDefs :
          (~Truthy(c.identity) /\ registerConnection(c, d))
             => /\ ev'.err = "IdentityMissing"
                /\ ev'.cb = 1
                /\ ev'.threw = None
                /\ ev'.calls = {}
                /\ opens' = opens
                /\ connections' = connections
                /\ clients' = clients]_vars

\* A configuration without identity has been rejected while the registry
\* holds an opened connection and another open is pending.
C23_Witness ==
    /\ ev.op = "registerConnection"
    /\ ev.err = "IdentityMissing"
    /\ ev.cb = 1
    /\ opens # <<>>
    /\ \E i \in DOMAIN connections : connections[i].connection # 0

\* C24: when the open of a registerConnection completes, with a client or
\* with a failure, whatever teardown has run while it was pending, the
\* callback of registerConnection is called exactly once and nothing is
\* thrown.
C24_OpenResolvesOnce ==
    [][\A i \in DOMAIN opens, outcome \in ConnectOutcomes :
          openDone(i, outcome) => (ev'.cb = 1 /\ ev'.threw = None)]_vars

----------------------------------------------------------------------------
(* Claim about the two steps of destroy, under SpecStore *)

\* C25: the call of a destroy on an opened connection that is not read-only
\* issues the find and no delete; when the find has failed, its callback
\* issues no delete, leaves the documents unchanged and passes the error on;
\* when the find has succeeded the delete is issued, and a failed delete
\* passes its error on without the records found.
C25_DeleteAfterFind ==
    [][/\ (IsCall("destroy") /\ OpenedWritable(ev'.id) /\ ev'.threw = None)
            => /\ ev'.calls = {"find"}
               /\ ev'.cb = 0
               /\ storeDocs' = storeDocs
       /\ (ev'.op = "destroy" /\ ev'.phase = "callback")
            => \A i \in DOMAIN destroys, o \in StoreOutcomes :
                  destroyFound(i, o)
                     => /\ ev'.cb = 1
                        /\ destroys[i].err
                              => /\ ev'.err = "StoreError"
                                 /\ ev'.calls = {}
                                 /\ ev'.res = {}
                                 /\ storeDocs' = storeDocs
                        /\ ~destroys[i].err
                              => /\ ev'.calls = {"delete"}
                                 /\ o = "ok" => ev'.err = None
                                 /\ o # "ok"
                                      => (ev'.err = "StoreError" /\ ev'.res = {})]_vars

\* The find of a destroy has failed, and the document it was to delete is
\* still in the collection.
C25_Witness ==
    /\ ev.op = "destroy"
    /\ ev.phase = "callback"
    /\ ev.err = "StoreError"
    /\ ev.calls = {}
    /\ OpenedWritable(ev.id)
    /\ "d1" \in DOMAIN storeDocs["users"]

====
